---- MODULE Spec2Model ----
(***************************************************************************)
(* Model of Auditv2.py: the print-shop financial report.  The script is a  *)
(* Streamlit page: every upload reruns it top to bottom (load_and_clean,   *)
(* run_math, the totals, four tabs, the export).  Floats are modelled by   *)
(* the exact rationals they approximate; strings are sequences of          *)
(* one-character strings so that the regular expressions and substring     *)
(* tests of the code can be computed.                                      *)
(***************************************************************************)
EXTENDS Integers, Sequences, FiniteSets, TLC

VARIABLES
    x,          \* clean_num: the cell value passed in
    result,     \* clean_num: what the call produced
    npc,        \* clean_num: "call" before the call, "done" after
    item_name,  \* get_costs: the row's Item Name
    plate_rate, \* sidebar: Plate Multiplier
    costs_map,  \* sidebar: Material & Unit Costs
    unit_cost,  \* get_costs: what the call produced
    cpc,        \* get_costs: "call" before the call, "done" after
    monthly_rent,   \* sidebar: Monthly Rent
    uploaded_file,  \* what st.file_uploader returned
    pc,         \* where the script is
    heap,       \* the DataFrame objects made so far
    df,         \* the object df names (a position in heap), 0 for None
    totals,     \* rev, prod_cost, rent_annual, net_profit, margin
    shown,      \* what the page shows
    exc,        \* the exception that ended the run, "none" without one
    sales,      \* reconciliation: the sales ledger
    production, \* reconciliation: the production log
    comparison, \* reconciliation: the comparison set
    mismatches, \* reconciliation: the comparison rows with a difference
    orphans,    \* reconciliation: the production records without a job id
    rpc         \* reconciliation: "call" before the run, "done" after

app == <<monthly_rent, uploaded_file, pc, heap, df, totals, shown, exc>>

vars == <<x, result, npc, item_name, plate_rate, costs_map, unit_cost, cpc,
          monthly_rent, uploaded_file, pc, heap, df, totals, shown, exc,
          sales, production, comparison, mismatches, orphans, rpc>>

recon == <<sales, production, comparison, mismatches, orphans, rpc>>

----------------------------------------------------------------------------
(* Exact rationals [n, d] with d > 0, in lowest terms: the values of the   *)
(* Python floats.                                                          *)

Abs(i) == IF i < 0 THEN -i ELSE i

RECURSIVE Gcd(_, _)
Gcd(a, b) == IF b = 0 THEN a ELSE Gcd(b, a % b)

Rat(n, d) ==
    LET g == Gcd(Abs(n), Abs(d))
        s == IF d < 0 THEN -1 ELSE 1
    IN  [n |-> s * (n \div g), d |-> s * (d \div g)]

Zero == [n |-> 0, d |-> 1]
RInt(i) == [n |-> i, d |-> 1]
\* The common denominator is the least one and products are cancelled
\* crosswise first, which keeps the intermediate integers small.
RAdd(a, b) ==
    Rat(a.n * (b.d \div Gcd(a.d, b.d)) + b.n * (a.d \div Gcd(a.d, b.d)),
        (a.d \div Gcd(a.d, b.d)) * b.d)
RNeg(a) == [n |-> -a.n, d |-> a.d]
RSub(a, b) == RAdd(a, RNeg(b))
RMul(a, b) ==
    Rat((a.n \div Gcd(Abs(a.n), b.d)) * (b.n \div Gcd(Abs(b.n), a.d)),
        (a.d \div Gcd(Abs(b.n), a.d)) * (b.d \div Gcd(Abs(a.n), b.d)))
RInv(a) == IF a.n < 0 THEN [n |-> -a.d, d |-> -a.n] ELSE [n |-> a.d, d |-> a.n]
RDiv(a, b) == RMul(a, RInv(b))
RLt(a, b) == a.n * b.d < b.n * a.d
RLe(a, b) == a.n * b.d <= b.n * a.d

RECURSIVE Pow10(_)
Pow10(k) == IF k = 0 THEN 1 ELSE 10 * Pow10(k - 1)

----------------------------------------------------------------------------
(* Characters and strings.                                                 *)

Digits == {"0", "1", "2", "3", "4", "5", "6", "7", "8", "9"}

DigitVal(c) ==
    CASE c = "0" -> 0 [] c = "1" -> 1 [] c = "2" -> 2 [] c = "3" -> 3
      [] c = "4" -> 4 [] c = "5" -> 5 [] c = "6" -> 6 [] c = "7" -> 7
      [] c = "8" -> 8 [] c = "9" -> 9

IsDigit(c) == c \in Digits

\* The number of elements of s that satisfy membership in set cs.
RECURSIVE CountIn(_, _)
CountIn(s, cs) ==
    IF s = <<>> THEN 0
    ELSE (IF Head(s) \in cs THEN 1 ELSE 0) + CountIn(Tail(s), cs)

\* int() of a run of decimal digits.
RECURSIVE DigitsToInt(_)
DigitsToInt(s) ==
    IF s = <<>> THEN 0
    ELSE 10 * DigitsToInt(SubSeq(s, 1, Len(s) - 1)) + DigitVal(s[Len(s)])

\* The elements of a set of numbers, ascending.
RECURSIVE Ascending(_)
Ascending(S) ==
    IF S = {} THEN <<>>
    ELSE LET m == CHOOSE a \in S : \A b \in S : a <= b
         IN  <<m>> \o Ascending(S \ {m})

----------------------------------------------------------------------------
(* Cell values of a table: NaN/None, a number, or text.                    *)

NaN == [k |-> "nan", n |-> 0, d |-> 1, s |-> <<>>]
Num(n, d) == [k |-> "num", n |-> Rat(n, d).n, d |-> Rat(n, d).d, s |-> <<>>]
Str(s) == [k |-> "str", n |-> 0, d |-> 1, s |-> s]

\* pd.isna on a scalar.
isna(c) == c.k = "nan"

----------------------------------------------------------------------------
(* clean_num, lines 28-35.                                                 *)

\* re.sub(r'[^\d.]', '', s): keep the digits and the dots.
RECURSIVE re_sub_nondigit(_)
re_sub_nondigit(s) ==
    IF s = <<>> THEN <<>>
    ELSE IF IsDigit(Head(s)) \/ Head(s) = "."
         THEN <<Head(s)>> \o re_sub_nondigit(Tail(s))
         ELSE re_sub_nondigit(Tail(s))

\* Python's float(str) on text made of signs, digits and dots: an optional
\* leading sign, then digits with at most one dot and at least one digit;
\* anything else raises ValueError (ok = FALSE).
py_float(s) ==
    LET signed == s # <<>> /\ Head(s) \in {"-", "+"}
        body == IF signed THEN Tail(s) ELSE s
        dots == CountIn(body, {"."})
        digs == CountIn(body, Digits)
        wellformed == digs >= 1 /\ dots <= 1 /\ digs + dots = Len(body)
        dotAt == CHOOSE i \in 1..(Len(body) + 1) :
                    \/ (i <= Len(body) /\ body[i] = ".")
                    \/ (i = Len(body) + 1 /\ dots = 0)
        whole == SubSeq(body, 1, dotAt - 1)
        frac == SubSeq(body, dotAt + 1, Len(body))
        mag == Rat(DigitsToInt(whole \o frac), Pow10(Len(frac)))
    IN  IF ~wellformed THEN [ok |-> FALSE, n |-> 0, d |-> 1]
        ELSE [ok |-> TRUE,
              n |-> IF signed /\ Head(s) = "-" THEN -mag.n ELSE mag.n,
              d |-> mag.d]

Returned(n, d) == [raised |-> FALSE, n |-> n, d |-> d]
Raised == [raised |-> TRUE, n |-> 0, d |-> 1]

\* clean_num with the try/except of lines 32-35 left out.
clean_num_no_except(c) ==
    IF isna(c) \/ (c.k = "str" /\ c.s = <<>>) THEN Returned(0, 1)
    ELSE IF c.k = "num" THEN Returned(c.n, c.d)
    ELSE LET f == py_float(re_sub_nondigit(c.s))
         IN  IF f.ok THEN Returned(f.n, f.d) ELSE Raised

clean_num(c) ==
    IF isna(c) \/ (c.k = "str" /\ c.s = <<>>) THEN Returned(0, 1)
    ELSE IF c.k = "num" THEN Returned(c.n, c.d)
    ELSE LET f == py_float(re_sub_nondigit(c.s))
         IN  IF f.ok THEN Returned(f.n, f.d)
             ELSE Returned(0, 1)          \* except: return 0.0

----------------------------------------------------------------------------
(* run_math.get_costs, lines 67-83, with the sidebar values it reads.      *)

Lower == <<"a", "b", "c", "d", "e", "f", "g", "h", "i", "j", "k", "l", "m",
           "n", "o", "p", "q", "r", "s", "t", "u", "v", "w", "x", "y", "z">>
Upper == <<"A", "B", "C", "D", "E", "F", "G", "H", "I", "J", "K", "L", "M",
           "N", "O", "P", "Q", "R", "S", "T", "U", "V", "W", "X", "Y", "Z">>

upper_char(c) ==
    IF \E i \in 1..26 : Lower[i] = c
    THEN Upper[CHOOSE i \in 1..26 : Lower[i] = c]
    ELSE c

\* str.upper()
upper(s) == [i \in 1..Len(s) |-> upper_char(s[i])]

\* s.startswith(pat)
startswith(s, pat) == Len(pat) <= Len(s) /\ SubSeq(s, 1, Len(pat)) = pat

\* pat in s, scanning from the left.
RECURSIVE contains(_, _)
contains(s, pat) ==
    IF Len(s) < Len(pat) THEN FALSE
    ELSE startswith(s, pat) \/ contains(Tail(s), pat)

Whitespace == {" "}

\* The longest prefix of s made of characters of cs: a greedy \d+ or \s*.
RECURSIVE run_len(_, _)
run_len(s, cs) ==
    IF s = <<>> \/ Head(s) \notin cs THEN 0
    ELSE 1 + run_len(Tail(s), cs)

drop(s, k) == SubSeq(s, k + 1, Len(s))

\* dim_pattern.match at the start of s: (\d+)\s*[xX*]\s*(\d+).  Every
\* quantifier is greedy and the character classes that follow one another
\* are disjoint, so backtracking to a shorter run never finds a match the
\* longest run misses.
match_here(s) ==
    LET wl == run_len(s, Digits)
        r1 == drop(s, wl)
        r2 == drop(r1, run_len(r1, Whitespace))
        r3 == IF r2 = <<>> THEN <<>> ELSE drop(Tail(r2), run_len(Tail(r2), Whitespace))
        hl == run_len(r3, Digits)
    IN  IF wl >= 1 /\ r2 # <<>> /\ Head(r2) \in {"x", "X", "*"} /\ hl >= 1
        THEN [found |-> TRUE, w |-> DigitsToInt(SubSeq(s, 1, wl)),
                              h |-> DigitsToInt(SubSeq(r3, 1, hl))]
        ELSE [found |-> FALSE, w |-> 0, h |-> 0]

\* dim_pattern.search(s): the match at the leftmost position that has one.
RECURSIVE dim_search(_)
dim_search(s) ==
    IF s = <<>> THEN [found |-> FALSE, w |-> 0, h |-> 0]
    ELSE IF match_here(s).found THEN match_here(s)
    ELSE dim_search(Tail(s))

S_BANNER == <<"B", "A", "N", "N", "E", "R">>
S_DIGITAL == <<"D", "I", "G", "I", "T", "A", "L">>
S_STICKER == <<"S", "T", "I", "C", "K", "E", "R">>
S_C2S220 == <<"C", "2", "S", " ", "2", "2", "0">>
S_FC == <<"F", "C">>
S_FOLDCOTE == <<"F", "O", "L", "D", "C", "O", "T", "E">>
S_C2S180 == <<"C", "2", "S", " ", "1", "8", "0">>
S_C2S140 == <<"C", "2", "S", " ", "1", "4", "0">>
S_C2S120 == <<"C", "2", "S", " ", "1", "2", "0">>
S_C2S80 == <<"C", "2", "S", " ", "8", "0">>
S_BOOK80 == <<"B", "O", "O", "K", " ", "8", "0">>

\* The material chain of lines 76-83.
material_cost(item, cm) ==
    IF contains(item, S_DIGITAL) THEN cm.digital
    ELSE IF contains(item, S_STICKER) THEN cm.sticker
    ELSE IF \E p \in {S_C2S220, S_FC, S_FOLDCOTE} : contains(item, p) THEN cm.c2s220
    ELSE IF contains(item, S_C2S180) THEN cm.c2s180
    ELSE IF contains(item, S_C2S140) THEN cm.c2s140
    ELSE IF contains(item, S_C2S120) THEN cm.c2s120
    ELSE IF contains(item, S_C2S80) \/ contains(item, S_BOOK80) THEN cm.c2s80
    ELSE Zero

\* get_costs with the size test of line 74 written w >= 100.
get_costs_w_ge_100(nm, pr, cm) ==
    LET item == upper(nm)
        match == dim_search(item)
    IN  IF match.found /\ ~contains(item, S_BANNER) /\ match.w >= 100
        THEN RMul(RMul(Rat(match.w, 1000), Rat(match.h, 1000)), pr)
        ELSE material_cost(item, cm)

\* get_costs(row) for the row's Item Name, under plate rate pr and costs
\* map cm.
get_costs(nm, pr, cm) ==
    LET item == upper(nm)
        match == dim_search(item)
    IN  IF match.found /\ ~contains(item, S_BANNER) /\ match.w > 100
        THEN RMul(RMul(Rat(match.w, 1000), Rat(match.h, 1000)), pr)
        ELSE material_cost(item, cm)

\* The sidebar defaults, lines 13-25.
DefaultRent == RInt(75000)
DefaultPlateRate == RInt(275)
DefaultCosts ==
    [digital |-> Rat(350, 100), sticker |-> Rat(325, 100), c2s220 |-> Rat(287, 100),
     c2s180 |-> Rat(257, 100), c2s140 |-> Rat(160, 100), c2s120 |-> Rat(159, 100),
     c2s80 |-> Rat(104, 100)]

\* Other values a user may type into the sidebar.
OtherCosts ==
    [digital |-> Rat(4, 1), sticker |-> Rat(3, 1), c2s220 |-> Rat(5, 2),
     c2s180 |-> Rat(2, 1), c2s140 |-> Rat(3, 2), c2s120 |-> Rat(5, 4),
     c2s80 |-> Rat(1, 1)]
PlateRates == {DefaultPlateRate, RInt(300)}
CostMaps == {DefaultCosts, OtherCosts}

----------------------------------------------------------------------------
(* Tables (DataFrames): column labels, row labels (the index) and rows of  *)
(* cells aligned with the columns.                                         *)

COL_ITEM == <<"I", "t", "e", "m", " ", "N", "a", "m", "e">>
COL_CUSTOMER == <<"C", "u", "s", "t", "o", "m", "e", "r", " ", "N", "a", "m", "e">>
COL_QTY == <<"S", "a", "l", "e", "s", " ", "Q", "t", "y">>
COL_TOTAL == <<"T", "o", "t", "a", "l">>
COL_DISCOUNT == <<"D", "i", "s", "c", "o", "u", "n", "t">>
COL_AMOUNT == <<"A", "m", "o", "u", "n", "t">>
COL_DATE == <<"S", "a", "l", "e", "s", " ", "D", "a", "t", "e">>
COL_MONTH == <<"M", "o", "n", "t", "h">>
COL_UNIT_COST == <<"U", "n", "i", "t", " ", "C", "o", "s", "t">>
COL_PROD_COST == <<"P", "r", "o", "d", " ", "C", "o", "s", "t">>

Frame(cols, idx, data) == [columns |-> cols, index |-> idx, data |-> data]

\* c in df.columns
has_col(t, c) == \E i \in 1..Len(t.columns) : t.columns[i] = Str(c)

\* The position of the (first) column labelled c.
col_pos(t, c) ==
    CHOOSE i \in 1..Len(t.columns) :
        t.columns[i] = Str(c) /\ \A j \in 1..(i - 1) : t.columns[j] # Str(c)

\* df[c] = values: replaces the column when it exists, appends it otherwise.
set_col(t, c, values) ==
    IF has_col(t, c)
    THEN [t EXCEPT !.data =
             [r \in 1..Len(t.data) |-> [t.data[r] EXCEPT ![col_pos(t, c)] = values[r]]]]
    ELSE [t EXCEPT !.columns = Append(t.columns, Str(c)),
                   !.data = [r \in 1..Len(t.data) |-> Append(t.data[r], values[r])]]

\* df[c] as a sequence of cells.
get_col(t, c) == [r \in 1..Len(t.data) |-> t.data[r][col_pos(t, c)]]

\* df[mask]: the rows whose mask entry is TRUE, in order, with their labels.
RECURSIVE picked(_, _)
picked(mask, r) ==
    IF r > Len(mask) THEN <<>>
    ELSE (IF mask[r] THEN <<r>> ELSE <<>>) \o picked(mask, r + 1)

select_rows(t, mask) ==
    LET keep == picked(mask, 1)
    IN  [t EXCEPT !.index = [i \in 1..Len(keep) |-> t.index[keep[i]]],
                  !.data = [i \in 1..Len(keep) |-> t.data[keep[i]]]]

\* Series.sum() of a float column.
RECURSIVE sum_cells(_)
sum_cells(cells) ==
    IF cells = <<>> THEN Zero
    ELSE RAdd([n |-> Head(cells).n, d |-> Head(cells).d], sum_cells(Tail(cells)))

----------------------------------------------------------------------------
(* load_and_clean, lines 38-64.                                            *)

lower_char(c) ==
    IF \E i \in 1..26 : Upper[i] = c
    THEN Lower[CHOOSE i \in 1..26 : Upper[i] = c]
    ELSE c

\* str.lower()
lower(s) == [i \in 1..Len(s) |-> lower_char(s[i])]

\* s.split('.')[-1]: what follows the last dot, all of s when it has none.
RECURSIVE last_segment(_)
last_segment(s) ==
    IF CountIn(s, {"."}) = 0 THEN s
    ELSE last_segment(Tail(s))

\* str.strip()
RECURSIVE rstrip(_)
rstrip(s) ==
    IF s # <<>> /\ s[Len(s)] \in Whitespace THEN rstrip(SubSeq(s, 1, Len(s) - 1))
    ELSE s

strip(s) == rstrip(drop(s, run_len(s, Whitespace)))

\* str(c) of a column label: the text itself, 'None' for a label pdfplumber
\* left empty.
py_str(c) == IF c.k = "str" THEN c.s ELSE <<"N", "o", "n", "e">>

EXT_CSV == <<"c", "s", "v">>
EXT_XLSX == <<"x", "l", "s", "x">>
EXT_PDF == <<"p", "d", "f">>

\* Lines 44-49 with every table appended whole.
RECURSIVE merge_pages_whole(_, _)
merge_pages_whole(pages, rows) ==
    IF pages = <<>> THEN rows
    ELSE IF Head(pages) # <<>> THEN merge_pages_whole(Tail(pages), rows \o Head(pages))
    ELSE merge_pages_whole(Tail(pages), rows)

\* Lines 44-49: the tables of the pages, merged.  `if table:` skips a page
\* without a table (None) or with an empty one.
RECURSIVE merge_pages(_, _)
merge_pages(pages, rows) ==
    IF pages = <<>> THEN rows
    ELSE LET table == Head(pages)
         IN  IF table # <<>>
             THEN IF rows = <<>>
                  THEN merge_pages(Tail(pages), rows \o table)
                  ELSE merge_pages(Tail(pages), rows \o Tail(table))
             ELSE merge_pages(Tail(pages), rows)

RangeIndex(k) == [i \in 1..k |-> i - 1]

NoFrame == Frame(<<>>, <<>>, <<>>)

\* Lines 39-51, for a file the libraries can read: kind is "frame" (df is a
\* DataFrame), "none" (df = None, line 50) or "return_none" (line 51).
read_file(file) ==
    LET ext == lower(last_segment(file.name))
    IN  IF ext = EXT_CSV \/ ext = EXT_XLSX
        THEN [kind |-> "frame",
              frame |-> Frame(file.header, RangeIndex(Len(file.rows)), file.rows)]
        ELSE IF ext = EXT_PDF
        THEN LET rows == merge_pages(file.pages, <<>>)
             IN  IF rows # <<>>
                 THEN [kind |-> "frame",
                       frame |-> Frame(rows[1], RangeIndex(Len(rows) - 1), Tail(rows))]
                 ELSE [kind |-> "none", frame |-> NoFrame]
        ELSE [kind |-> "return_none", frame |-> NoFrame]

\* Line 53.
strip_columns(t) ==
    [t EXCEPT !.columns = [i \in 1..Len(t.columns) |-> Str(strip(py_str(t.columns[i])))]]

\* clean_num as a cell: the float it returns.
cleaned(c) == Num(clean_num(c).n, clean_num(c).d)

\* Lines 54-56.
RECURSIVE clean_columns(_, _)
clean_columns(t, cols) ==
    IF cols = <<>> THEN t
    ELSE LET c == Head(cols)
             t1 == IF has_col(t, c)
                   THEN set_col(t, c, [r \in 1..Len(t.data) |-> cleaned(get_col(t, c)[r])])
                   ELSE t
         IN  clean_columns(t1, Tail(cols))

NUMERIC_COLS == <<COL_TOTAL, COL_DISCOUNT, COL_QTY, COL_AMOUNT>>

\* Line 58: the mask df['Item Name'].notna() & df['Customer Name'].notna().
required_mask(t) ==
    [r \in 1..Len(t.data) |->
        ~isna(get_col(t, COL_ITEM)[r]) /\ ~isna(get_col(t, COL_CUSTOMER)[r])]

NaT == NaN
Date(y, m, d) == [k |-> "date", n |-> y * 10000 + m * 100 + d, d |-> 1, s |-> <<>>]
Period(ymd) == [k |-> "period", n |-> ymd \div 100, d |-> 1, s |-> <<>>]

DaysIn(m, y) ==
    IF m \in {4, 6, 9, 11} THEN 30
    ELSE IF m = 2 THEN (IF y % 4 = 0 /\ (y % 100 # 0 \/ y % 400 = 0) THEN 29 ELSE 28)
    ELSE 31

\* pd.to_datetime(..., errors='coerce', dayfirst=True) on one cell holding
\* NaN or text: digits, '/' or '-', digits, the same separator, digits, read
\* as day, month, year; NaT when the text is not of that form or names no
\* day of the calendar.  (Text that is a date only when read month first,
\* and a column whose texts differ in format, are not among the inputs:
\* pandas versions differ on them.)
to_datetime(c) ==
    IF c.k # "str" THEN NaT
    ELSE LET s == c.s
             al == run_len(s, Digits)
             r1 == drop(s, al)
             r2 == IF r1 = <<>> THEN <<>> ELSE Tail(r1)
             bl == run_len(r2, Digits)
             r3 == drop(r2, bl)
             r4 == IF r3 = <<>> THEN <<>> ELSE Tail(r3)
             yl == run_len(r4, Digits)
             day == DigitsToInt(SubSeq(s, 1, al))
             month == DigitsToInt(SubSeq(r2, 1, bl))
             year == DigitsToInt(SubSeq(r4, 1, yl))
             shaped == /\ al \in 1..2 /\ bl \in 1..2 /\ yl = 4
                       /\ r1 # <<>> /\ Head(r1) \in {"/", "-"}
                       /\ r3 # <<>> /\ Head(r3) = Head(r1)
                       /\ yl = Len(r4)
         IN  IF shaped /\ month \in 1..12 /\ day >= 1 /\ day <= DaysIn(month, year)
             THEN Date(year, month, day)
             ELSE NaT

\* Line 61.
convert_dates(t) ==
    set_col(t, COL_DATE, [r \in 1..Len(t.data) |-> to_datetime(get_col(t, COL_DATE)[r])])

\* Line 62 keeping the rows whose date did not parse.
dropna_dates_keeps_all(t) == select_rows(t, [r \in 1..Len(t.data) |-> TRUE])

\* Line 62: df.dropna(subset=['Sales Date']), a new table.
dropna_dates(t) ==
    select_rows(t, [r \in 1..Len(t.data) |-> ~isna(get_col(t, COL_DATE)[r])])

\* Line 63.
add_month(t) ==
    set_col(t, COL_MONTH, [r \in 1..Len(t.data) |-> Period(get_col(t, COL_DATE)[r].n)])

\* Lines 60-64 on the copy t2 that line 58 made of the rows of t1 that
\* passed: line 61 converts t2 in place, line 62 makes one more table and
\* line 63 extends that one in place.
clean_dates(t1, t2) ==
    IF has_col(t2, COL_DATE)
    THEN [exc |-> "none", first |-> t1,
          made |-> <<convert_dates(t2), add_month(dropna_dates(convert_dates(t2)))>>]
    ELSE [exc |-> "none", first |-> t1, made |-> <<t2>>]

\* Lines 58-64 on the table t1 that lines 53-56 left.
clean_rows(t1) ==
    IF ~has_col(t1, COL_ITEM) \/ ~has_col(t1, COL_CUSTOMER)
    THEN [exc |-> "KeyError", first |-> t1, made |-> <<>>]
    ELSE clean_dates(t1, select_rows(t1, required_mask(t1)))

\* Lines 53-64 on the table t that lines 39-50 produced.  first is t after
\* the in-place steps of lines 53-56; made are the tables created after it,
\* the last one being returned.
clean_frame(t) == clean_rows(clean_columns(strip_columns(t), NUMERIC_COLS))

----------------------------------------------------------------------------
(* run_math, lines 67-87, and the totals, lines 98-102.                    *)

RatOf(c) == [n |-> c.n, d |-> c.d]
NumOf(r) == Num(r.n, r.d)

\* Lines 85-86 on table t.  df.apply(get_costs, axis=1) on a table without
\* rows returns a DataFrame, which line 85 cannot assign to one column:
\* ValueError.  Line 85 has already added Unit Cost when line 86 fails on a
\* missing Sales Qty.
run_math_prod(t1) ==
    IF ~has_col(t1, COL_QTY) THEN [exc |-> "KeyError", frame |-> t1]
    ELSE [exc |-> "none",
          frame |-> set_col(t1, COL_PROD_COST,
              [r \in 1..Len(t1.data) |->
                  NumOf(RMul(RatOf(get_col(t1, COL_UNIT_COST)[r]),
                             RatOf(get_col(t1, COL_QTY)[r])))])]

run_math(t, pr, cm) ==
    IF t.data = <<>> THEN [exc |-> "ValueError", frame |-> t]
    ELSE run_math_prod(set_col(t, COL_UNIT_COST,
             [r \in 1..Len(t.data) |->
                 NumOf(get_costs(py_str(get_col(t, COL_ITEM)[r]), pr, cm))]))

\* uploaded_file before any upload (None).
NoFile == [name |-> <<>>, readable |-> TRUE, header |-> <<>>, rows |-> <<>>, pages |-> <<>>]

NoTotals == [rev |-> Zero, prod_cost |-> Zero, rent_annual |-> Zero,
             net_profit |-> Zero, margin |-> Zero]

\* Lines 98-102 with rent_annual = monthly_rent.
compute_totals_one_month(t, rent) ==
    LET rev == sum_cells(get_col(t, COL_TOTAL))
        prod_cost == sum_cells(get_col(t, COL_PROD_COST))
        net_profit == RSub(RSub(rev, prod_cost), rent)
    IN  [rev |-> rev, prod_cost |-> prod_cost, rent_annual |-> rent,
         net_profit |-> net_profit,
         margin |-> IF RLt(Zero, rev) THEN RMul(RDiv(net_profit, rev), RInt(100)) ELSE Zero]

\* Lines 98-102.
compute_totals(t, rent) ==
    LET rev == sum_cells(get_col(t, COL_TOTAL))
        prod_cost == sum_cells(get_col(t, COL_PROD_COST))
        rent_annual == RMul(RInt(12), rent)
        net_profit == RSub(RSub(rev, prod_cost), rent_annual)
    IN  [rev |-> rev, prod_cost |-> prod_cost, rent_annual |-> rent_annual,
         net_profit |-> net_profit,
         margin |-> IF RLt(Zero, rev) THEN RMul(RDiv(net_profit, rev), RInt(100)) ELSE Zero]

----------------------------------------------------------------------------
(* The reconciliation engine of sections 4.1-4.4 of the specification      *)
(* (identifier extractor, page-count estimator, aggregator, reconciler).   *)

NoJobId == [null |-> TRUE, id |-> 0]

\* 4.1: the first maximal run of decimal digits, as an integer; null when
\* the text has no digit.
RECURSIVE extract_job_id(_)
extract_job_id(s) ==
    IF s = <<>> THEN NoJobId
    ELSE IF IsDigit(Head(s))
         THEN [null |-> FALSE, id |-> DigitsToInt(SubSeq(s, 1, run_len(s, Digits)))]
         ELSE extract_job_id(Tail(s))

S_2SIDES == <<"2", " ", "S", "I", "D", "E", "S">>

\* 4.2: twice the quantity for a double-sided item.
expected_pages(qty, item) ==
    IF contains(upper(item), S_2SIDES) THEN qty * 2 ELSE qty

\* The position of the group of job id in groups, 0 when it has none.
group_pos(groups, id) ==
    IF \E i \in 1..Len(groups) : groups[i].job_id = id
    THEN CHOOSE i \in 1..Len(groups) : groups[i].job_id = id
    ELSE 0

\* 4.3, sales side: one group per job id, in input order; the first record
\* gives invoice_ref and customer_name, expected pages are summed; records
\* without a job id are left out.
RECURSIVE aggregate_sales(_, _)
aggregate_sales(records, groups) ==
    IF records = <<>> THEN groups
    ELSE IF extract_job_id(Head(records).invoice_ref).null
         THEN aggregate_sales(Tail(records), groups)
    ELSE IF group_pos(groups, extract_job_id(Head(records).invoice_ref).id) = 0
         THEN aggregate_sales(Tail(records),
                  Append(groups,
                      [job_id |-> extract_job_id(Head(records).invoice_ref).id,
                       invoice_ref |-> Head(records).invoice_ref,
                       customer_name |-> Head(records).customer_name,
                       total |-> expected_pages(Head(records).sales_qty,
                                                Head(records).item_name)]))
    ELSE aggregate_sales(Tail(records),
             [groups EXCEPT
                 ![group_pos(groups, extract_job_id(Head(records).invoice_ref).id)].total =
                     @ + expected_pages(Head(records).sales_qty, Head(records).item_name)])

\* 4.3, production side: printed pages summed per job id.
RECURSIVE aggregate_production(_, _)
aggregate_production(records, groups) ==
    IF records = <<>> THEN groups
    ELSE IF extract_job_id(Head(records).job_name).null
         THEN aggregate_production(Tail(records), groups)
    ELSE IF group_pos(groups, extract_job_id(Head(records).job_name).id) = 0
         THEN aggregate_production(Tail(records),
                  Append(groups,
                      [job_id |-> extract_job_id(Head(records).job_name).id,
                       total |-> Head(records).printed_pages]))
    ELSE aggregate_production(Tail(records),
             [groups EXCEPT
                 ![group_pos(groups, extract_job_id(Head(records).job_name).id)].total =
                     @ + Head(records).printed_pages])

\* 4.3: the production records without a job id.
orphan_records(records) ==
    SelectSeq(records, LAMBDA r : extract_job_id(r.job_name).null)

group_ids(groups) == {groups[i].job_id : i \in 1..Len(groups)}

group_total(groups, id) ==
    IF group_pos(groups, id) = 0 THEN 0 ELSE groups[group_pos(groups, id)].total

\* One row of the comparison set.
comparison_row(sg, pg, id) ==
    [job_id |-> id,
     expected_pages |-> group_total(sg, id),
     printed_pages |-> group_total(pg, id),
     diff |-> group_total(pg, id) - group_total(sg, id)]

\* 4.4 as a left join: the job ids of the sales side only.
reconcile_sales_only(sg, pg) ==
    [i \in 1..Cardinality(group_ids(sg)) |->
        comparison_row(sg, pg, Ascending(group_ids(sg))[i])]

\* 4.4: the full outer join of the two aggregated sides on job id, in
\* ascending job id order.
reconcile(sg, pg) ==
    [i \in 1..Cardinality(group_ids(sg) \cup group_ids(pg)) |->
        comparison_row(sg, pg, Ascending(group_ids(sg) \cup group_ids(pg))[i])]

\* 4.4: the rows with a difference.
mismatch_rows(comp) == SelectSeq(comp, LAMBDA row : row.diff # 0)

----------------------------------------------------------------------------
(* The inputs of clean_num.                                                *)

MaxTextLen == 5

TextChars == {"1", "2", "3", "4", ",", ".", "-", "a"}

RECURSIVE SeqsUpTo(_, _)
SeqsUpTo(S, k) ==
    IF k = 0 THEN {<<>>}
    ELSE LET shorter == SeqsUpTo(S, k - 1)
         IN  shorter \cup {Append(s, c) : s \in {t \in shorter : Len(t) = k - 1}, c \in S}

\* Numbers as read_csv / read_excel deliver them: ints and floats of
\* either sign.
NumCells == {Num(0, 1), Num(7, 1), Num(-5, 1), Num(5, 2), Num(-1, 4)}

CellValues == {NaN} \cup NumCells \cup {Str(s) : s \in SeqsUpTo(TextChars, MaxTextLen)}

NotCalled == [raised |-> FALSE, n |-> 0, d |-> 1]

InitNum ==
    /\ x \in CellValues
    /\ result = NotCalled
    /\ npc = "call"
    /\ item_name = <<>> /\ plate_rate = DefaultPlateRate /\ costs_map = DefaultCosts
    /\ unit_cost = Zero /\ cpc = "off"
    /\ monthly_rent = DefaultRent /\ uploaded_file = NoFile /\ pc = "off"
    /\ heap = <<>> /\ df = 0 /\ totals = NoTotals /\ shown = {} /\ exc = "none"
    /\ sales = <<>> /\ production = <<>> /\ comparison = <<>>
    /\ mismatches = <<>> /\ orphans = <<>> /\ rpc = "off"

\* df[col].apply(clean_num) on one cell (line 56).
ApplyCleanNum ==
    /\ npc = "call"
    /\ result' = clean_num(x)
    /\ npc' = "done"
    /\ UNCHANGED <<x, item_name, plate_rate, costs_map, unit_cost, cpc, app, recon>>

NextNum == ApplyCleanNum

SpecNum == InitNum /\ [][NextNum]_vars

----------------------------------------------------------------------------
(* The inputs of get_costs: item names made of the words the rules look    *)
(* for, sizes, and filler, joined by single spaces.                        *)

MaxWords == 2

Words ==
    { <<"D", "I", "G", "I", "T", "A", "L">>,
      <<"S", "t", "i", "c", "k", "e", "r">>,
      <<"C", "2", "S", " ", "2", "2", "0">>,
      <<"O", "F", "F", "C", "U", "T">>,
      <<"F", "O", "L", "D", "C", "O", "T", "E">>,
      <<"C", "2", "S", " ", "1", "8", "0">>,
      <<"C", "2", "S", " ", "1", "4", "0">>,
      <<"C", "2", "S", " ", "1", "2", "0">>,
      <<"C", "2", "S", " ", "8", "0">>,
      <<"B", "o", "o", "k", " ", "8", "0">>,
      <<"B", "A", "N", "N", "E", "R">>,
      <<"1", "5", "0", "x", "2", "0", "0">>,
      <<"5", "0", " ", "X", " ", "7", "0">>,
      <<"1", "2", "0", "*", "9", "0">>,
      <<"1", "0", "1", "x", "3", "0">>,
      <<"1", "0", "0", "x", "3", "0">>,
      <<"x", " ", "5">>,
      <<"P", "l", "a", "t", "e">> }

RECURSIVE JoinWords(_)
JoinWords(ws) ==
    IF ws = <<>> THEN <<>>
    ELSE IF Len(ws) = 1 THEN ws[1]
    ELSE ws[1] \o <<" ">> \o JoinWords(Tail(ws))

ItemNames == {JoinWords(ws) : ws \in SeqsUpTo(Words, MaxWords)}

InitCost ==
    /\ item_name \in ItemNames
    /\ plate_rate \in PlateRates
    /\ costs_map \in CostMaps
    /\ unit_cost = Zero
    /\ cpc = "call"
    /\ x = NaN /\ result = NotCalled /\ npc = "off"
    /\ monthly_rent = DefaultRent /\ uploaded_file = NoFile /\ pc = "off"
    /\ heap = <<>> /\ df = 0 /\ totals = NoTotals /\ shown = {} /\ exc = "none"
    /\ sales = <<>> /\ production = <<>> /\ comparison = <<>>
    /\ mismatches = <<>> /\ orphans = <<>> /\ rpc = "off"

\* df.apply(get_costs, axis=1) on one row (line 85).
ApplyGetCosts ==
    /\ cpc = "call"
    /\ unit_cost' = get_costs(item_name, plate_rate, costs_map)
    /\ cpc' = "done"
    /\ UNCHANGED <<item_name, plate_rate, costs_map, x, result, npc, app, recon>>

NextCost == ApplyGetCosts

SpecCost == InitCost /\ [][NextCost]_vars

----------------------------------------------------------------------------
(* The uploads.  The uploader of line 90 accepts csv, xlsx and pdf files   *)
(* only.                                                                   *)

MaxRows == 2
MaxPages == 3

Tabular(nm, header, rows) ==
    [name |-> nm, readable |-> TRUE, header |-> header, rows |-> rows, pages |-> <<>>]
Pdf(pages) ==
    [name |-> <<"r", ".", "p", "d", "f">>, readable |-> TRUE, header |-> <<>>, rows |-> <<>>, pages |-> pages]
Unreadable(nm) ==
    [name |-> nm, readable |-> FALSE, header |-> <<>>, rows |-> <<>>, pages |-> <<>>]

NAME_CSV == <<"r", ".", "c", "s", "v">>
NAME_XLSX == <<"R", ".", "X", "L", "S", "X">>

FullHeader ==
    <<Str(COL_ITEM), Str(COL_CUSTOMER), Str(COL_QTY), Str(COL_TOTAL),
      Str(COL_DISCOUNT), Str(COL_DATE)>>

\* The labels as a hand-made sheet may carry them, with blanks around.
PaddedHeader ==
    <<Str(COL_ITEM \o <<" ">>), Str(COL_CUSTOMER), Str(COL_QTY), Str(<<" ">> \o COL_TOTAL),
      Str(COL_DISCOUNT), Str(COL_DATE)>>

ITEM_DIGITAL == Str(<<"D", "i", "g", "i", "t", "a", "l", " ", "A", "4">>)
ITEM_PLATE == Str(<<"P", "l", "a", "t", "e", " ", "1", "5", "0", "x", "2", "0", "0">>)
ITEM_OTHER == Str(<<"L", "a", "m", "i", "n", "a", "t", "i", "o", "n">>)
CUST_ACME == Str(<<"A", "c", "m", "e">>)
DATE_FEB == Str(<<"1", "3", "/", "0", "2", "/", "2", "0", "2", "5">>)
DATE_MAR == Str(<<"0", "5", "/", "0", "3", "/", "2", "0", "2", "5">>)
DATE_BAD_DAY == Str(<<"3", "1", "/", "0", "2", "/", "2", "0", "2", "5">>)
DATE_TEXT == Str(<<"n", "/", "a">>)

Row(item, cust, qty, total, disc, date) == <<item, cust, qty, total, disc, date>>

\* Rows that differ in what decides whether a row is kept.
RetentionRows ==
    {Row(item, cust, Num(2, 1), Num(100, 1), Num(5, 1), date) :
        item \in {NaN, ITEM_DIGITAL}, cust \in {NaN, CUST_ACME},
        date \in {NaN, DATE_BAD_DAY, DATE_FEB}}

\* Rows that differ in what the totals are computed from.
MoneyRows ==
    {Row(item, CUST_ACME, qty, total, Num(5, 1), DATE_FEB) :
        item \in {ITEM_PLATE, ITEM_OTHER},
        qty \in {Num(2, 1), Str(<<"1", ",", "0", "0", "0">>)},
        total \in {Num(0, 1), Num(-50, 1), Str(<<"1", ",", "2", "3", "4", ".", "5", "0">>)}}

SampleRows ==
    << Row(ITEM_DIGITAL, CUST_ACME, Num(2, 1), Num(100, 1), Num(5, 1), DATE_FEB),
       Row(ITEM_PLATE, CUST_ACME, Str(<<"1", "0">>), Str(<<"1", ",", "2", "3", "4", ".", "5", "0">>), NaN, DATE_MAR) >>

Project(row, pos) == [i \in 1..Len(pos) |-> row[pos[i]]]

\* Sheets with any subset of the six columns, in the sheet's order.
StructureFiles ==
    {Tabular(nm, Project(FullHeader, Ascending(P)),
             [r \in 1..Len(SampleRows) |-> Project(SampleRows[r], Ascending(P))]) :
        nm \in {NAME_CSV, NAME_XLSX}, P \in SUBSET (1..Len(FullHeader))}
    \cup {Tabular(NAME_CSV, PaddedHeader, SampleRows)}

RowFiles ==
    {Tabular(NAME_CSV, FullHeader, rows) :
        rows \in SeqsUpTo(RetentionRows, MaxRows) \cup SeqsUpTo(MoneyRows, MaxRows)}

\* What pdfplumber extracts: text or None in every cell.
PDF_ROW_A == Row(ITEM_DIGITAL, CUST_ACME, Str(<<"2">>), Str(<<"1", "0", "0", ".", "0", "0">>), Str(<<"5">>), DATE_FEB)
PDF_ROW_B == Row(ITEM_PLATE, CUST_ACME, Str(<<"1", ",", "0", "0", "0">>), Str(<<"n", "/", "a">>), NaN, DATE_TEXT)
PDF_ROW_C == Row(NaN, CUST_ACME, Str(<<"3">>), Str(<<"3", "0">>), Str(<<>>), DATE_FEB)

\* The table of a page; <<>> for a page without one.
PdfTables ==
    { <<>>, <<FullHeader>>, <<FullHeader, PDF_ROW_A>>, <<FullHeader, PDF_ROW_B, PDF_ROW_C>>,
      <<PDF_ROW_B>>, <<PDF_ROW_C, PDF_ROW_A>> }

PdfFiles == {Pdf(pages) : pages \in SeqsUpTo(PdfTables, MaxPages)}

UnreadableFiles == {Unreadable(NAME_CSV), Unreadable(<<"r", ".", "p", "d", "f">>)}

InputFiles == StructureFiles \cup RowFiles \cup PdfFiles \cup UnreadableFiles

\* What the user typed into the sidebar: the defaults, or other values.
Sidebars ==
    { [rent |-> DefaultRent, plate |-> DefaultPlateRate, costs |-> DefaultCosts],
      [rent |-> Rat(12345, 10), plate |-> RInt(300), costs |-> OtherCosts] }

----------------------------------------------------------------------------
(* One run of the script, lines 90-182.                                    *)

Init ==
    /\ uploaded_file \in {NoFile} \cup InputFiles
    /\ \E sb \in Sidebars :
          monthly_rent = sb.rent /\ plate_rate = sb.plate /\ costs_map = sb.costs
    /\ pc = "start"
    /\ heap = <<>>
    /\ df = 0
    /\ totals = NoTotals
    /\ shown = {}
    /\ exc = "none"
    /\ x = NaN /\ result = NotCalled /\ npc = "off"
    /\ item_name = <<>> /\ unit_cost = Zero /\ cpc = "off"
    /\ sales = <<>> /\ production = <<>> /\ comparison = <<>>
    /\ mismatches = <<>> /\ orphans = <<>> /\ rpc = "off"

inputs == <<uploaded_file, monthly_rent, plate_rate, costs_map>>
others == <<x, result, npc, item_name, unit_cost, cpc, recon>>

Crash(e) ==
    /\ pc' = "crashed"
    /\ exc' = e

\* Lines 181-182: no file yet.
NoUpload ==
    /\ pc = "start"
    /\ uploaded_file = NoFile
    /\ shown' = shown \cup {"upload_info"}
    /\ pc' = "done"
    /\ UNCHANGED <<heap, df, totals, exc, inputs, others>>

\* Lines 92-93 and 39-51: the file is read into a table.  A file the
\* library cannot read makes read_csv, read_excel or pdfplumber.open raise.
ReadFile ==
    /\ pc = "start"
    /\ uploaded_file # NoFile
    /\ \E r \in {read_file(uploaded_file)} :
           IF ~uploaded_file.readable
           THEN Crash("ReadError") /\ UNCHANGED <<heap, df>>
           ELSE IF r.kind = "frame"
           THEN heap' = Append(heap, r.frame) /\ df' = Len(heap) + 1
                    /\ pc' = "clean" /\ exc' = exc
           ELSE IF r.kind = "none"
           THEN pc' = "clean" /\ UNCHANGED <<heap, df, exc>>
           ELSE pc' = "math" /\ UNCHANGED <<heap, df, exc>>
    /\ UNCHANGED <<totals, shown, inputs, others>>

\* Lines 53-64.  df = None (a PDF without a table) fails on df.columns.
Clean ==
    /\ pc = "clean"
    /\ IF df = 0
       THEN Crash("AttributeError") /\ UNCHANGED <<heap, df>>
       ELSE \E c \in {clean_frame(heap[df])} :
                /\ heap' = [heap EXCEPT ![df] = c.first] \o c.made
                /\ IF c.exc = "none"
                   THEN df' = Len(heap) + Len(c.made) /\ pc' = "math" /\ exc' = exc
                   ELSE Crash(c.exc) /\ df' = df
    /\ UNCHANGED <<totals, shown, inputs, others>>

\* Lines 94-95: nothing more happens when load_and_clean returned None;
\* otherwise run_math works on the table df names and returns it.
RunMath ==
    /\ pc = "math"
    /\ IF df = 0
       THEN pc' = "done" /\ UNCHANGED <<heap, exc>>
       ELSE \E m \in {run_math(heap[df], plate_rate, costs_map)} :
                /\ heap' = [heap EXCEPT ![df] = m.frame]
                /\ IF m.exc = "none" THEN pc' = "totals" /\ exc' = exc ELSE Crash(m.exc)
    /\ UNCHANGED <<df, totals, shown, inputs, others>>

\* Lines 98-109: the totals and the financial summary.
Totals ==
    /\ pc = "totals"
    /\ IF has_col(heap[df], COL_TOTAL)
       THEN /\ totals' = compute_totals(heap[df], monthly_rent)
            /\ shown' = shown \cup {"summary"}
            /\ pc' = "tab1" /\ exc' = exc
       ELSE Crash("KeyError") /\ UNCHANGED <<totals, shown>>
    /\ UNCHANGED <<heap, df, inputs, others>>

\* Lines 121-126: the monthly chart, grouped by Month.
Tab1 ==
    /\ pc = "tab1"
    /\ IF has_col(heap[df], COL_MONTH)
       THEN shown' = shown \cup {"monthly_chart"} /\ pc' = "tab2" /\ exc' = exc
       ELSE Crash("KeyError") /\ shown' = shown
    /\ UNCHANGED <<heap, df, totals, inputs, others>>

\* Lines 128-134: the clients table and chart.
Tab2 ==
    /\ pc = "tab2"
    /\ shown' = shown \cup {"clients"}
    /\ pc' = "tab3"
    /\ UNCHANGED <<heap, df, totals, exc, inputs, others>>

\* Lines 136-168: the product tables.
Tab3 ==
    /\ pc = "tab3"
    /\ shown' = shown \cup {"products"}
    /\ pc' = "tab4"
    /\ UNCHANGED <<heap, df, totals, exc, inputs, others>>

\* Lines 170-176: the strategy notes, which read Discount.
Tab4 ==
    /\ pc = "tab4"
    /\ IF has_col(heap[df], COL_DISCOUNT)
       THEN shown' = shown \cup {"strategy"} /\ pc' = "export" /\ exc' = exc
       ELSE Crash("KeyError") /\ shown' = shown
    /\ UNCHANGED <<heap, df, totals, inputs, others>>

\* Lines 179-180.
Export ==
    /\ pc = "export"
    /\ shown' = shown \cup {"download"}
    /\ pc' = "done"
    /\ UNCHANGED <<heap, df, totals, exc, inputs, others>>

Next ==
    \/ NoUpload \/ ReadFile \/ Clean \/ RunMath \/ Totals
    \/ Tab1 \/ Tab2 \/ Tab3 \/ Tab4 \/ Export

Spec == Init /\ [][Next]_vars

----------------------------------------------------------------------------
(* One reconciliation run over a sales ledger and a production log.        *)

MaxRecords == 2

SalesRecords ==
    {[invoice_ref |-> ref, customer_name |-> <<"A", "c", "m", "e">>, item_name |-> qi[2], sales_qty |-> qi[1]] :
        ref \in {<<"D", "R", "1", "0", "0">>, <<"D", "R", "0", "0", "7">>, <<"I", "N", "V", "-", "N", "o", "n", "e">>},
        qi \in {<<5, <<"C", "a", "r", "d">>>>, <<10, <<"F", "l", "y", "e", "r", " ", "2", " ", "S", "i", "d", "e", "s">>>>}}

ProductionRecords ==
    {[job_name |-> job, owner |-> <<"o", "p">>, printed_pages |-> pages] :
        job \in {<<"J", "o", "b", "_", "D", "R", "_", "1", "0", "0">>, <<"U", "n", "l", "a", "b", "e", "l", "e", "d">>, <<"D", "R", "7">>}, pages \in {5, 20}}

InitRecon ==
    /\ sales \in SeqsUpTo(SalesRecords, MaxRecords)
    /\ production \in SeqsUpTo(ProductionRecords, MaxRecords)
    /\ comparison = <<>> /\ mismatches = <<>> /\ orphans = <<>>
    /\ rpc = "call"
    /\ x = NaN /\ result = NotCalled /\ npc = "off"
    /\ item_name = <<>> /\ plate_rate = DefaultPlateRate /\ costs_map = DefaultCosts
    /\ unit_cost = Zero /\ cpc = "off"
    /\ monthly_rent = DefaultRent /\ uploaded_file = NoFile /\ pc = "off"
    /\ heap = <<>> /\ df = 0 /\ totals = NoTotals /\ shown = {} /\ exc = "none"

\* reconcile(sales, production) -> (comparison, orphans, mismatches).
Reconcile ==
    /\ rpc = "call"
    /\ \E comp \in {reconcile(aggregate_sales(sales, <<>>),
                              aggregate_production(production, <<>>))} :
          /\ comparison' = comp
          /\ mismatches' = mismatch_rows(comp)
    /\ orphans' = orphan_records(production)
    /\ rpc' = "done"
    /\ UNCHANGED <<sales, production, x, result, npc, item_name, plate_rate, costs_map,
                   unit_cost, cpc, app>>

NextRecon == Reconcile

SpecRecon == InitRecon /\ [][NextRecon]_vars

----------------------------------------------------------------------------
(* What the claims about a run speak of.                                   *)

Finished == pc \in {"done", "crashed"}

\* The table lines 39-50 make of the upload, with its labels stripped.
InputTable == strip_columns(read_file(uploaded_file).frame)

Parsed == uploaded_file # NoFile /\ uploaded_file.readable
              /\ read_file(uploaded_file).kind = "frame"

InputHas(c) == Parsed /\ has_col(InputTable, c)

(* C3: an input with Item Name and Customer Name that lacks one of Total,  *)
(* Sales Date, Discount completes without an exception, and every feature  *)
(* that does not need the missing column is shown.                         *)

OptionalCols == {COL_TOTAL, COL_DATE, COL_DISCOUNT}

Features == {"summary", "monthly_chart", "clients", "products", "strategy", "download"}

Needs(f) ==
    CASE f = "summary" -> {COL_TOTAL}
      [] f = "monthly_chart" -> {COL_TOTAL, COL_DATE}
      [] f = "clients" -> {COL_TOTAL}
      [] f = "products" -> {COL_TOTAL}
      [] f = "strategy" -> {COL_TOTAL, COL_DISCOUNT}
      [] f = "download" -> {}

C3_MissingOptionalRecovered ==
    ( /\ Finished
      /\ InputHas(COL_ITEM) /\ InputHas(COL_CUSTOMER) /\ InputHas(COL_QTY)
      /\ \E c \in OptionalCols : ~InputHas(c) )
    => /\ exc = "none"
       /\ \A f \in Features : (\A c \in Needs(f) : InputHas(c)) => f \in shown

(* C4: a PDF without a table, or a table without Item Name or Customer     *)
(* Name, ends in a visible error message, with no analytics shown and no   *)
(* exception.                                                              *)

StructurallyInvalid ==
    /\ uploaded_file # NoFile /\ uploaded_file.readable
    /\ \/ read_file(uploaded_file).kind # "frame"
       \/ ~has_col(InputTable, COL_ITEM)
       \/ ~has_col(InputTable, COL_CUSTOMER)

C4_InvalidInputReported ==
    (Finished /\ StructurallyInvalid)
    => /\ exc = "none"
       /\ "error_message" \in shown
       /\ shown \cap Features = {}

(* C5: with a Sales Date column, load_and_clean returns exactly the rows   *)
(* whose Item Name and Customer Name are not null and whose Sales Date     *)
(* parses, each once, in input order, with their row labels and names.     *)

Qualifies(t, r) ==
    /\ ~isna(get_col(t, COL_ITEM)[r])
    /\ ~isna(get_col(t, COL_CUSTOMER)[r])
    /\ to_datetime(get_col(t, COL_DATE)[r]) # NaT

KeptRows(t) == Ascending({r \in 1..Len(t.data) : Qualifies(t, r)})

C5_RowRetention ==
    (pc = "math" /\ df # 0 /\ InputHas(COL_DATE))
    => /\ Len(heap[df].data) = Len(KeptRows(InputTable))
       /\ \A i \in 1..Len(KeptRows(InputTable)) :
             /\ heap[df].index[i] = InputTable.index[KeptRows(InputTable)[i]]
             /\ get_col(heap[df], COL_ITEM)[i]
                    = get_col(InputTable, COL_ITEM)[KeptRows(InputTable)[i]]
             /\ get_col(heap[df], COL_CUSTOMER)[i]
                    = get_col(InputTable, COL_CUSTOMER)[KeptRows(InputTable)[i]]
             /\ get_col(heap[df], COL_DATE)[i]
                    = to_datetime(get_col(InputTable, COL_DATE)[KeptRows(InputTable)[i]])

\* Two rows with both names; the first has a date that is no day of the
\* calendar and is gone, the second is kept under its label 1.
C5_Witness ==
    /\ pc = "math" /\ df # 0 /\ InputHas(COL_DATE)
    /\ Len(InputTable.data) = 2
    /\ \A r \in 1..2 : ~isna(get_col(InputTable, COL_ITEM)[r])
                          /\ ~isna(get_col(InputTable, COL_CUSTOMER)[r])
    /\ get_col(InputTable, COL_DATE)[1] = DATE_BAD_DAY
    /\ heap[df].index = <<1>>

(* C7: run_math leaves the table it receives unchanged and returns its     *)
(* derived columns in a new table.                                         *)

C7_RunMathPure ==
    [][(pc = "math" /\ df # 0) =>
          /\ heap'[df] = heap[df]
          /\ (pc' = "totals" => df' # df)]_vars

(* C9: the table read from a PDF has, as labels, the first row of the      *)
(* first page table that is not empty and, as rows, the other rows of that *)
(* table followed by all rows but the first of every later table that is   *)
(* not empty, in page order.                                               *)

HasTable(pages) == \E k \in 1..Len(pages) : pages[k] # <<>>

FirstTable(pages) ==
    CHOOSE k \in 1..Len(pages) : pages[k] # <<>> /\ \A j \in 1..(k - 1) : pages[j] = <<>>

\* The rows but the first of the tables on pages j, j + 1, ...
RECURSIVE LaterRows(_, _)
LaterRows(pages, j) ==
    IF j > Len(pages) THEN <<>>
    ELSE (IF pages[j] # <<>> THEN Tail(pages[j]) ELSE <<>>) \o LaterRows(pages, j + 1)

IsPdf == uploaded_file # NoFile /\ uploaded_file.readable
             /\ lower(last_segment(uploaded_file.name)) = EXT_PDF

C9_PdfMerge ==
    (pc = "clean" /\ IsPdf)
    => IF HasTable(uploaded_file.pages)
       THEN /\ df # 0
            /\ heap[df].columns = uploaded_file.pages[FirstTable(uploaded_file.pages)][1]
            /\ heap[df].data = LaterRows(uploaded_file.pages, FirstTable(uploaded_file.pages))
       ELSE df = 0

\* A page without a table, then two tables that both start with the header.
C9_Witness ==
    /\ pc = "clean" /\ IsPdf
    /\ uploaded_file.pages =
          << <<>>, <<FullHeader, PDF_ROW_A>>, <<FullHeader, PDF_ROW_B, PDF_ROW_C>> >>
    /\ heap[df].columns = FullHeader
    /\ heap[df].data = <<PDF_ROW_A, PDF_ROW_B, PDF_ROW_C>>

(* C10: net_profit = sum(Total) - sum(Unit Cost * Sales Qty) - 12 *        *)
(* monthly_rent; the margin is net_profit / revenue * 100 for a positive   *)
(* revenue and exactly 0 otherwise.                                        *)

\* The sum over rows r, r + 1, ... of Total - Unit Cost * Sales Qty.
RECURSIVE RowProfits(_, _)
RowProfits(t, r) ==
    IF r > Len(t.data) THEN Zero
    ELSE RAdd(RSub(RatOf(get_col(t, COL_TOTAL)[r]),
                   RMul(RatOf(get_col(t, COL_UNIT_COST)[r]), RatOf(get_col(t, COL_QTY)[r]))),
              RowProfits(t, r + 1))

RECURSIVE Revenue(_, _)
Revenue(t, r) ==
    IF r > Len(t.data) THEN Zero
    ELSE RAdd(RatOf(get_col(t, COL_TOTAL)[r]), Revenue(t, r + 1))

C10_FinancialSummary ==
    "summary" \in shown =>
        /\ totals.net_profit = RSub(RowProfits(heap[df], 1), RMul(RInt(12), monthly_rent))
        /\ IF Revenue(heap[df], 1).n > 0
           THEN RMul(totals.margin, Revenue(heap[df], 1)) = RMul(totals.net_profit, RInt(100))
           ELSE totals.margin = Zero

\* A table whose totals add up to 0: the margin is 0, not a quotient.
C10_Witness ==
    /\ "summary" \in shown
    /\ Len(heap[df].data) = 2
    /\ totals.rev = Zero
    /\ totals.net_profit # Zero
    /\ totals.margin = Zero

----------------------------------------------------------------------------
(* C1: clean_num never raises, and a missing value or a text holding no    *)
(* digit at all yields 0.                                                  *)

NoDigitText(c) == c.k = "str" /\ CountIn(c.s, Digits) = 0

C2_NonNegative == npc = "done" => (~result.raised /\ result.n >= 0)

(* C6: the unit cost is the value of the first rule that matches, in the   *)
(* order dimension, DIGITAL, STICKER, C2S 220 / FC / FOLDCOTE, C2S 180,    *)
(* C2S 140, C2S 120, C2S 80 / BOOK 80, and 0 when none matches; the        *)
(* dimension rule matches only without BANNER and with W > 100.            *)

\* pat occurs somewhere in s.
Occurs(s, pat) ==
    \E i \in 1..(Len(s) - Len(pat) + 1) : SubSeq(s, i, i + Len(pat) - 1) = pat

\* The rule table for one item name: (predicate, value) pairs in priority
\* order.
RuleTable(nm, pr, cm) ==
    LET item == upper(nm)
        dim == dim_search(item)
    IN  << [hit |-> dim.found /\ ~Occurs(item, S_BANNER) /\ dim.w > 100,
            val |-> Rat(dim.w * dim.h * pr.n, 1000000 * pr.d)],
           [hit |-> Occurs(item, S_DIGITAL), val |-> cm.digital],
           [hit |-> Occurs(item, S_STICKER), val |-> cm.sticker],
           [hit |-> Occurs(item, S_C2S220) \/ Occurs(item, S_FC) \/ Occurs(item, S_FOLDCOTE),
            val |-> cm.c2s220],
           [hit |-> Occurs(item, S_C2S180), val |-> cm.c2s180],
           [hit |-> Occurs(item, S_C2S140), val |-> cm.c2s140],
           [hit |-> Occurs(item, S_C2S120), val |-> cm.c2s120],
           [hit |-> Occurs(item, S_C2S80) \/ Occurs(item, S_BOOK80), val |-> cm.c2s80] >>

FirstMatch(rules) ==
    IF \E i \in 1..Len(rules) : rules[i].hit
    THEN rules[CHOOSE i \in 1..Len(rules) :
                   rules[i].hit /\ \A j \in 1..(i - 1) : ~rules[j].hit].val
    ELSE Zero

C6_FirstMatchWins ==
    cpc = "done" => unit_cost = FirstMatch(RuleTable(item_name, plate_rate, costs_map))

\* "100x30 Sticker": a dimension match whose W is exactly 100 falls through
\* to the material rules, and STICKER decides.
C6_Witness ==
    /\ cpc = "done"
    /\ item_name = JoinWords(<< <<"1", "0", "0", "x", "3", "0">>,
                                <<"S", "t", "i", "c", "k", "e", "r">> >>)
    /\ unit_cost = costs_map.sticker

\* "C2S 120 x 5": the dimension rule reads the 120 of the paper weight as a
\* width and wins over the C2S 120 rule.
C6_DimensionBeatsMaterial ==
    /\ cpc = "done"
    /\ item_name = JoinWords(<< <<"C", "2", "S", " ", "1", "2", "0">>, <<"x", " ", "5">> >>)
    /\ unit_cost = RMul(Rat(120 * 5, 1000000), plate_rate)

(* C8: every job id extracted from either side is in the comparison set    *)
(* exactly once, with expected_pages = 0 when the sales side lacks it,     *)
(* printed_pages = 0 when the production side lacks it, and                *)
(* diff = printed_pages - expected_pages.                                  *)

SalesJobIds ==
    {extract_job_id(sales[i].invoice_ref).id :
        i \in {j \in 1..Len(sales) : ~extract_job_id(sales[j].invoice_ref).null}}

ProductionJobIds ==
    {extract_job_id(production[i].job_name).id :
        i \in {j \in 1..Len(production) : ~extract_job_id(production[j].job_name).null}}

C8_JoinComplete ==
    rpc = "done" =>
        /\ \A id \in SalesJobIds \cup ProductionJobIds :
              /\ Cardinality({i \in 1..Len(comparison) : comparison[i].job_id = id}) = 1
              /\ \A i \in 1..Len(comparison) :
                    comparison[i].job_id = id =>
                        /\ (id \notin SalesJobIds => comparison[i].expected_pages = 0)
                        /\ (id \notin ProductionJobIds => comparison[i].printed_pages = 0)
        /\ \A i \in 1..Len(comparison) :
              comparison[i].diff = comparison[i].printed_pages - comparison[i].expected_pages

\* Job 7 is in the production log only and job 100 in the sales ledger
\* only: both are in the comparison set.
C8_Witness ==
    /\ rpc = "done"
    /\ Len(comparison) = 2
    /\ comparison[1].job_id = 7 /\ comparison[1].expected_pages = 0
    /\ comparison[1].printed_pages > 0
    /\ comparison[2].job_id = 100 /\ comparison[2].printed_pages = 0
    /\ comparison[2].expected_pages > 0

====
